---- MODULE Spec2Model ----
(***************************************************************************)
(* The streaming client of finlight-client: BaseWebSocketClient, its       *)
(* supervisor loop connect(), the message router, the three session timers,*)
(* the backoff policy and the duplicate filter.                            *)
(*                                                                         *)
(* JavaScript runs every event handler to completion, and the continuation *)
(* of an `await` whose promise a handler settles runs before any other     *)
(* event: one action below is one event handler together with the          *)
(* continuations it releases.  Time is in milliseconds.                    *)
(***************************************************************************)
EXTENDS Integers, Sequences, FiniteSets, Bags, TLC

\* ---------------------------------------------------------------- bounds
\* WebSocket objects constructed by one connect() call.
MaxAttempts == 2
\* Inbound frames handled in the supervisor specification.
MaxFrames == 2
\* The clock stops advancing once it has reached this instant.
MaxTime == 5001
\* Inbound sendArticle frames in the duplicate-filter specification.
MaxArticles == 13
\* Deliveries of articles without a link in the duplicate-filter specification.
MaxEmpty == 2
\* Inbound sendArticle frames in the sink specification.
MaxSinkFrames == 4

\* ------------------------------------------------- options and constants
\* The options the integration tests construct the client with, in ms.
pingIntervalMs == 5 * 1000
pongTimeoutMs == 6 * 1000
baseReconnectDelayMs == 500
maxReconnectDelayMs == 2 * 1000
connectionLifetimeMs == 10 * 1000

RECENT_ARTICLE_CACHE_SIZE == 10
WatchdogPeriodMs == 5000
RateLimitWaitMs == 60000
BlockedWaitMs == 3600000
DefaultKickMs == 900000
Http429WaitMs == 60 * 1000

\* ApiClient: `this.config.retryCount ?? 3`, the base wait of calculateBackoff,
\* and the value that stands for a retryCount left undefined.
DefaultRetryCount == 3
baseWait == 500
NoRetryCount == -1
\* The largest retryCount a caller configures.
MaxRetryCount == 4
\* Status codes of a failed request; 0 is an error without a response.
Statuses == {0, 400, 404, 429, 500, 502, 503, 504}

\* WebhookService: the tolerance of verifyTimestamp, and the wall clock of the
\* call.
REPLAY_ATTACK_TOLERANCE_MS == 5 * 60 * 1000
WallClock == 10 * REPLAY_ATTACK_TOLERANCE_MS

\* The number of doublings of the delay that are followed for one client.
MaxDoublings == 5
\* Values of the baseReconnectDelay and maxReconnectDelay options, in ms.
DelayOptions == {0 - 1000, 0 - 500, 0, 250, 500, 1000, 1500, 10000}

\* Close codes a `close` event may carry.
CloseCodes == {1000, 1006, 1008, 1013, 4000, 4001, 4002, 4003}
\* retryAfter values an admin_kick frame may carry.
KickValues == {0, 3000}
\* Article links of the supervisor specification; 0 is the empty link.
Links == {0, 1}
\* Lease identifiers of admit frames.
Leases == {1}

VARIABLES
    pc,                       \* position of connect(): init, awaitWs, sleeping, done
    _stop,
    webSocket,                \* index in socks of this.webSocket, 0 = undefined
    socks,                    \* the WebSocket objects constructed so far, by state
    timers,                   \* the active session timers
    pingInterval,             \* timer handles: the session that started the timer, 0 = undefined
    pongWatchdog,
    rotationTimeout,
    sleeps,                   \* the pending sleep() timers of handleReconnect, a bag
    currentReconnectDelayMs,
    reconnectAt,
    lastPongTime,
    connectionStartTime,
    leaseId,
    clientNonce,
    recentArticleLinks,       \* the Set, in insertion order
    now,                      \* Date.now()
    frames,                   \* inbound frames handled so far
    delivered,                \* history: the sink's invocations, each the link of the
                              \*   article and the transport it arrived on
    suppressed,               \* history: the last article dropped as a duplicate
    closeCall,                \* history: code of the last close() call on this.webSocket,
                              \*   0 = none, 1005 = called with no code
    stopCalled,               \* history: stop() has been invoked
    preemptedSeen,            \* history: a preempted frame has been handled
    closed1008,               \* history: a close event with code 1008 has been handled
    openPending,              \* history: an open happened, no exponential wait started since
    prevGate,                 \* history: lengths of the last two awaited exponential
    lastGate,                 \*   waits with no open between them
    sent,                     \* history: the subscription frames sent, each the
                              \*   transport it went to and the clientNonce in it
    atSink,                   \* history: whether the identifier of the article was in
                              \*   the set when the sink was last invoked
    sinkError,                \* history: what became of the last exception the sink threw
    closeHook,                \* history: the invocations of the onClose hook: their
                              \*   number and, of the last one, the transport that
                              \*   closed, the code given, the timer handles at the
                              \*   call and whether the hook threw
    retryCount,               \* ApiClient: config.retryCount
    apiPc,                    \* position of request(): idle, requesting, delaying,
                              \*   returned, thrown
    attempts,                 \* request(): its local counter
    requests,                 \* history: the HTTP requests this call has issued
    failures,                 \* history: the statuses of its failed requests
    waits,                    \* history: the delays it has started
    thrown,                   \* history: the error the call threw
    webhookArgs,              \* the arguments of a constructEvent call and the wall
                              \*   clock at the call
    webhookResult,            \* what the call returned or threw, "pending" before it
    rawArticle,               \* the argument of a transformArticle call, each field
                              \*   by the type of its value
    transformed,              \* the article the call returned, once it is done
    backoff,                  \* the delay options of a client in ms, its
                              \*   currentReconnectDelayMs, and the number of times
                              \*   the delay was doubled
    admitEcho                 \* history: the last admit frame noted: whether its
                              \*   echoed nonce drew the warning, and its place
                              \*   among the frames

timerVars == <<timers, pingInterval, pongWatchdog, rotationTimeout>>
sessVars == <<lastPongTime, connectionStartTime, leaseId, clientNonce>>
loopVars == <<pc, webSocket>>
gateVars == <<openPending, prevGate, lastGate>>
flagVars == <<stopCalled, preemptedSeen, closed1008, suppressed>>
restVars == <<retryCount, apiPc, attempts, requests, failures, waits, thrown>>
webhookVars == <<webhookArgs, webhookResult>>
transformVars == <<rawArticle, transformed>>
auxVars == <<closeHook, restVars, webhookVars, admitEcho, transformVars, backoff>>
histVars == <<sent, atSink, sinkError, auxVars>>
vars == <<pc, _stop, webSocket, socks, timers, pingInterval, pongWatchdog,
          rotationTimeout, sleeps, currentReconnectDelayMs, reconnectAt,
          lastPongTime, connectionStartTime, leaseId, clientNonce,
          recentArticleLinks, now, frames, delivered, suppressed, closeCall,
          stopCalled, preemptedSeen, closed1008, openPending, prevGate, lastGate,
          sent, atSink, sinkError, closeHook, retryCount, apiPc, attempts,
          requests, failures, waits, thrown, webhookArgs, webhookResult,
          admitEcho, rawArticle, transformed, backoff>>

Min(a, b) == IF a < b THEN a ELSE b

\* -------------------------------------------------------- transformArticle

\* The values a field of an inbound article may hold, by type: left out, the
\* empty string, a non-empty string.
FieldKinds == {"undefined", "emptyString", "string"}

\* The values of the companies field: left out, an object that is no array,
\* an array of companies, each given by its confidence field.
CompanyLists ==
    {[type |-> "undefined", items |-> <<>>], [type |-> "object", items |-> <<>>]}
        \cup {[type |-> "array", items |-> <<c>>] : c \in FieldKinds}

RawArticles ==
    [publishDate : FieldKinds, createdAt : FieldKinds, confidence : FieldKinds,
     companies : CompanyLists]

\* `if (value) ...`: a non-empty string.
TruthyField(kind) == kind = "string"

\* transformArticle(rawArticle): a copy in which publishDate, the confidence
\* of each company and the article's confidence are converted.
transformArticle(raw) ==
    [publishDate |-> IF TruthyField(raw.publishDate) THEN "Date" ELSE raw.publishDate,
     createdAt |-> raw.createdAt,
     confidence |-> IF TruthyField(raw.confidence) THEN "number" ELSE raw.confidence,
     companies |->
        IF raw.companies.type = "array"
        THEN [type |-> "array",
              items |-> [k \in 1..Len(raw.companies.items) |->
                            IF TruthyField(raw.companies.items[k])
                            THEN "number" ELSE "undefined"]]
        ELSE raw.companies]

\* The delay of the client as constructed with the options of the model.
InitBackoff ==
    backoff = [base |-> baseReconnectDelayMs, max |-> maxReconnectDelayMs,
               current |-> baseReconnectDelayMs, doublings |-> 0]

\* No article has been handed to the transformer.
InitTransform ==
    /\ rawArticle = [publishDate |-> "string", createdAt |-> "undefined",
                     confidence |-> "undefined",
                     companies |-> [type |-> "undefined", items |-> <<>>]]
    /\ transformed = [done |-> FALSE, article |-> rawArticle]

\* --------------------------------------------------------- WebhookService

\* A timestamp argument: left undefined, the empty string, a string Date reads
\* as this instant, or a string Date cannot read.
Undefined == [kind |-> "undefined", time |-> 0]
Timestamps ==
    {Undefined, [kind |-> "empty", time |-> 0], [kind |-> "invalid", time |-> 0]}
        \cup {[kind |-> "date", time |-> WallClock + d] :
                 d \in {0, REPLAY_ATTACK_TOLERANCE_MS, REPLAY_ATTACK_TOLERANCE_MS + 1,
                        0 - REPLAY_ATTACK_TOLERANCE_MS,
                        0 - (REPLAY_ATTACK_TOLERANCE_MS + 1)}}

\* Raw bodies: two JSON texts and one that is not JSON.
Bodies == {"article", "null", "text"}
Secrets == {"whsec", "other"}

\* `if (timestamp)`, `timestamp ? ... : ...`: a non-empty string.
Truthy(timestamp) == timestamp.kind \in {"date", "invalid"}

\* The message computeSignatureWithTimestamp and computeSignature digest.
MessageOf(timestamp, payload) ==
    [timestamp |-> IF Truthy(timestamp) THEN timestamp ELSE Undefined,
     payload |-> payload]

\* crypto.createHmac('sha256', secret).update(message).digest('hex'), taken
\* to be free of collisions.
Hmac(secret, message) == [secret |-> secret, message |-> message]

\* The pieces a signature string is made of: the text 'sha256=', the 64 hex
\* digits of a digest, and 64 characters that are not all ASCII.
SIGNATURE_PREFIX == [kind |-> "prefix", digest |-> Hmac("", MessageOf(Undefined, ""))]
Hex(digest) == [kind |-> "hex", digest |-> digest]
Wide == [kind |-> "wide", digest |-> Hmac("", MessageOf(Undefined, ""))]

\* string.length and Buffer.from(string).length of a signature string.
PieceLength(piece) == IF piece.kind = "prefix" THEN 7 ELSE 64
PieceBytes(piece) ==
    IF piece.kind = "prefix" THEN 7 ELSE IF piece.kind = "hex" THEN 64 ELSE 65

RECURSIVE StringLength(_)
StringLength(sig) ==
    IF sig = <<>> THEN 0 ELSE PieceLength(Head(sig)) + StringLength(Tail(sig))

RECURSIVE ByteLength(_)
ByteLength(sig) ==
    IF sig = <<>> THEN 0 ELSE PieceBytes(Head(sig)) + ByteLength(Tail(sig))

\* normalizeSignature: signature.replace(SIGNATURE_PREFIX, ''), which removes
\* the first occurrence wherever it is.
normalizeSignature(signature) ==
    LET at == {i \in 1..Len(signature) : signature[i] = SIGNATURE_PREFIX}
    IN  IF at = {}
        THEN signature
        ELSE LET i == CHOOSE j \in at : \A k \in at : j <= k
             IN  SubSeq(signature, 1, i - 1) \o SubSeq(signature, i + 1, Len(signature))

\* secureCompare(a, b): "differ" on unequal lengths, "RangeError" when
\* timingSafeEqual is given buffers of unequal byte length.
secureCompare(a, b) ==
    IF StringLength(a) # StringLength(b) THEN "differ"
    ELSE IF ByteLength(a) # ByteLength(b) THEN "RangeError"
    ELSE IF a = b THEN "equal" ELSE "differ"

\* verifyTimestamp: Math.abs(currentTime - webhookTime) >
\* REPLAY_ATTACK_TOLERANCE_MS, where webhookTime is NaN for a string Date
\* cannot read and every comparison with NaN is false.
Abs(x) == IF x < 0 THEN 0 - x ELSE x
OutsideTolerance(timestamp, currentTime) ==
    IF timestamp.kind = "date"
    THEN Abs(currentTime - timestamp.time) > REPLAY_ATTACK_TOLERANCE_MS
    ELSE FALSE

\* constructEvent(rawBody, signature, endpointSecret, timestamp): "article"
\* when it returns, else the message of the error it throws.
constructEvent(rawBody, signature, endpointSecret, timestamp, currentTime) ==
    LET expectedSignature == <<Hex(Hmac(endpointSecret, MessageOf(timestamp, rawBody)))>>
        compared == secureCompare(normalizeSignature(signature), expectedSignature)
    IN  IF compared = "RangeError" THEN "RangeError"
        ELSE IF compared = "differ" THEN "Invalid webhook signature"
        ELSE IF Truthy(timestamp) /\ OutsideTolerance(timestamp, currentTime)
             THEN "Webhook timestamp outside allowed tolerance"
        ELSE IF rawBody = "text" THEN "Invalid JSON payload"
        ELSE "article"

\* The signature strings a sender produces for this body and timestamp: the
\* digest under some secret of the body with or without the timestamp, or 64
\* other characters, bare or with 'sha256=' put somewhere.
SignaturesFor(rawBody, timestamp) ==
    LET pieces == {Hex(Hmac(k, MessageOf(t, rawBody))) :
                      k \in Secrets, t \in {timestamp, Undefined}} \cup {Wide}
    IN  UNION {{<<d>>, <<SIGNATURE_PREFIX, d>>, <<d, SIGNATURE_PREFIX>>,
                <<SIGNATURE_PREFIX, SIGNATURE_PREFIX, d>>} : d \in pieces}

WebhookCalls ==
    UNION {{[rawBody |-> b, signature |-> g, endpointSecret |-> "whsec",
             timestamp |-> t, currentTime |-> WallClock] :
               g \in SignaturesFor(b, t)} : b \in Bodies, t \in Timestamps}

\* A receiver that has not been handed a webhook.
InitWebhook ==
    /\ webhookArgs = [rawBody |-> "article",
                      signature |-> <<Hex(Hmac("whsec", MessageOf(Undefined, "article")))>>,
                      endpointSecret |-> "whsec", timestamp |-> Undefined,
                      currentTime |-> WallClock]
    /\ webhookResult = "pending"

InitStream ==
    /\ pc = "init"
    /\ _stop = FALSE
    /\ webSocket = 0
    /\ socks = <<>>
    /\ timers = {}
    /\ pingInterval = 0
    /\ pongWatchdog = 0
    /\ rotationTimeout = 0
    /\ sleeps = EmptyBag
    /\ currentReconnectDelayMs = baseReconnectDelayMs
    /\ reconnectAt = 0
    /\ lastPongTime = 0
    /\ connectionStartTime = 0
    /\ leaseId = 0
    /\ clientNonce = 0
    /\ recentArticleLinks = <<>>
    /\ now = 0
    /\ frames = 0
    /\ delivered = <<>>
    /\ suppressed = [link |-> 0, sess |-> 0]
    /\ closeCall = 0
    /\ stopCalled = FALSE
    /\ preemptedSeen = FALSE
    /\ closed1008 = FALSE
    /\ openPending = FALSE
    /\ prevGate = 0
    /\ lastGate = 0
    /\ sent = <<>>
    /\ atSink = "none"
    /\ sinkError = "none"
    /\ closeHook = [calls |-> 0, sess |-> 0, code |-> 0, handles |-> <<0, 0, 0>>,
                    caught |-> FALSE]
    /\ admitEcho = [echo |-> "none", frame |-> 0]

\* An ApiClient on which request() has not been called.
InitRest ==
    /\ apiPc = "idle"
    /\ attempts = 0
    /\ requests = 0
    /\ failures = <<>>
    /\ waits = <<>>
    /\ thrown = [kind |-> "none", status |-> 0]

Init ==
    /\ InitStream
    /\ retryCount = NoRetryCount
    /\ InitRest
    /\ InitWebhook
    /\ InitTransform
    /\ InitBackoff


\* ---------------------------------------------------------------- helpers

\* Mutant of LoopHead: the loop does not test the stop flag.
LoopHeadIgnoresStop(s, sk) ==
    /\ Len(sk) < MaxAttempts
    /\ pc' = "awaitWs"
    /\ socks' = Append(sk, "connecting")
    /\ webSocket' = Len(sk) + 1
    /\ closeCall' = 0

\* Mutant of LoopHead: an `if` in place of the `while`, one attempt only.
LoopHeadRunsOnce(s, sk) ==
    IF s \/ Len(sk) > 0
    THEN /\ pc' = "done"
         /\ socks' = sk
         /\ UNCHANGED <<webSocket, closeCall>>
    ELSE /\ pc' = "awaitWs"
         /\ socks' = Append(sk, "connecting")
         /\ webSocket' = Len(sk) + 1
         /\ closeCall' = 0

\* while (!this._stop) { ... this.webSocket = new WebSocket(...) ... }: the loop
\* head, reached by connect() itself and by every continuation of its awaits.
\* s is _stop and sk the sockets at that point.
LoopHead(s, sk) ==
    IF s
    THEN /\ pc' = "done"
         /\ socks' = sk
         /\ UNCHANGED <<webSocket, closeCall>>
    ELSE /\ Len(sk) < MaxAttempts
         /\ pc' = "awaitWs"
         /\ socks' = Append(sk, "connecting")
         /\ webSocket' = Len(sk) + 1
         /\ closeCall' = 0

\* this.webSocket?.close(...): an open socket starts its closing handshake, a
\* connecting one aborts its handshake, any other call does nothing.
WsClose(sk) ==
    IF webSocket = 0
    THEN sk
    ELSE [sk EXCEPT ![webSocket] =
            IF @ = "open" THEN "closing"
            ELSE IF @ = "connecting" THEN "aborting"
            ELSE @]

\* webSocket?.readyState === WebSocket.OPEN
ReadyStateOpen == webSocket # 0 /\ socks[webSocket] = "open"

\* clearTimers(): the timers the three handles name are cancelled.
ClearedTimers ==
    {t \in timers :
        ~ \/ (t.kind = "ping" /\ t.sess = pingInterval)
          \/ (t.kind = "watchdog" /\ t.sess = pongWatchdog)
          \/ (t.kind = "rotation" /\ t.sess = rotationTimeout)}

ClearTimers ==
    /\ timers' = ClearedTimers
    /\ pingInterval' = 0
    /\ pongWatchdog' = 0
    /\ rotationTimeout' = 0

\* startPingInterval(); startPongWatchdog(); startProactiveRotation(): each
\* stores the new timer in its handle, whatever the handle held.
StartTimers(s) ==
    /\ timers' = timers \cup
          { [kind |-> "ping", sess |-> s, at |-> now + pingIntervalMs],
            [kind |-> "watchdog", sess |-> s, at |-> now + WatchdogPeriodMs],
            [kind |-> "rotation", sess |-> s, at |-> now + connectionLifetimeMs] }
    /\ pingInterval' = s
    /\ pongWatchdog' = s
    /\ rotationTimeout' = s

\* Mutant of NewSleep: the wait is always the exponential one.
NewSleepIgnoresFloor(ra, aw) ==
    [at |-> now + currentReconnectDelayMs, exp |-> TRUE, awaited |-> aw]

\* handleReconnect() up to its await: the sleep it starts.  ra is reconnectAt
\* at the call, aw tells whether the caller awaits the returned promise.
NewSleep(ra, aw) ==
    IF ra # 0 /\ now < ra
    THEN [at |-> ra, exp |-> FALSE, awaited |-> aw]
    ELSE [at |-> now + currentReconnectDelayMs, exp |-> TRUE, awaited |-> aw]

\* Mutant of DoubledDelay: the delay is doubled without the cap.
DoubledDelayNoCap(d, max) == d * 2

\* Math.min(this.currentReconnectDelayMs * 2, this.maxReconnectDelayMs)
DoubledDelay(d, max) == Min(d * 2, max)

\* handleReconnect() after its await, on the exponential branch.
NextDelay(d) == DoubledDelay(d, maxReconnectDelayMs)

\* resetBackoff()
ResetDelay == baseReconnectDelayMs

\* Mutant of StopAfterClose: code 1008 is handled like any other code.
StopAfterCloseNo1008(code) == _stop

\* handleClose(code): the stop flag after `if (code === 1008) this._stop = true`.
StopAfterClose(code) == _stop \/ code = 1008

\* handleClose(code): `if (!this._stop) void this.handleReconnect()`.
SleepsAfterClose(code) ==
    IF StopAfterClose(code)
    THEN <<>>
    ELSE <<NewSleep(reconnectAt, FALSE)>>

\* Mutant of ReconnectAtAfterError: a 429 is handled like any other error.
ReconnectAtAfterErrorNo429(is429) == reconnectAt

\* catch (error): the 429 check.
ReconnectAtAfterError(is429) ==
    IF is429 THEN now + Http429WaitMs ELSE reconnectAt

\* catch (error): `if (!this._stop) await this.handleReconnect()`.  s is the stop
\* flag and ra reconnectAt at that point.
SleepsAfterError(s, ra) ==
    IF s THEN <<>> ELSE <<NewSleep(ra, TRUE)>>

\* History of the waits a step starts (ws: the sleeps started, in order).
NoteWaits(ws) ==
    LET exps == SelectSeq(ws, LAMBDA w : w.exp)
        aws == SelectSeq(ws, LAMBDA w : w.awaited)
    IN  /\ IF openPending /\ Len(exps) > 0
           THEN openPending' = FALSE
           ELSE UNCHANGED openPending
        /\ IF Len(aws) = 0
           THEN UNCHANGED <<prevGate, lastGate>>
           ELSE IF aws[1].exp
                THEN /\ prevGate' = lastGate
                     /\ lastGate' = aws[1].at - now
                ELSE /\ prevGate' = 0
                     /\ lastGate' = 0

\* The bag of the elements of a sequence of at most two sleeps.
SeqToBag(ws) ==
    IF Len(ws) = 0 THEN EmptyBag
    ELSE IF Len(ws) = 1 THEN SetToBag({ws[1]})
    ELSE SetToBag({ws[1]}) (+) SetToBag({ws[2]})

\* Mutant of isDuplicate: no identifier is ever found in the set.
isDuplicateNever(identifier) == FALSE

\* isDuplicate(identifier)
isDuplicate(identifier) ==
    \E k \in 1..Len(recentArticleLinks) : recentArticleLinks[k] = identifier

\* Mutant of trackArticle: above the limit the entry added just before the
\* new one is dropped.
trackArticleEvictsLatest(identifier) ==
    LET added == IF isDuplicate(identifier)
                 THEN recentArticleLinks
                 ELSE Append(recentArticleLinks, identifier)
    IN  IF Len(added) > RECENT_ARTICLE_CACHE_SIZE
        THEN SubSeq(added, 1, Len(added) - 2) \o <<identifier>>
        ELSE added

\* Mutant of trackArticle: nothing is evicted.
trackArticleNoEvict(identifier) == Append(recentArticleLinks, identifier)

\* trackArticle(identifier): add, then drop the oldest entry above the limit.
trackArticle(identifier) ==
    LET added == IF isDuplicate(identifier)
                 THEN recentArticleLinks
                 ELSE Append(recentArticleLinks, identifier)
    IN  IF Len(added) > RECENT_ARTICLE_CACHE_SIZE /\ added[1] # 0
        THEN Tail(added)
        ELSE added

\* Mutant of getArticleIdentifierBase: the base class derives the link.
getArticleIdentifierLink(link) == link

\* getArticleIdentifier(article) of the base class, which the raw client
\* inherits: null.
getArticleIdentifierBase(link) == 0

\* getArticleIdentifier(article) of the enriched client: the link.
getArticleIdentifier(link) == link


\* ---------------------------------------------------------------- actions

\* The caller invokes connect(requestPayload, onMessage).
Connect ==
    /\ pc = "init"
    /\ LoopHead(_stop, socks)
    /\ UNCHANGED <<histVars, _stop, timerVars, sleeps, currentReconnectDelayMs, reconnectAt,
                   sessVars, recentArticleLinks, now, frames, delivered,
                   flagVars, gateVars>>

\* Mutant of OnOpen: the nonce is generated once and sent again by every
\* later session.
OnOpenReusesNonce ==
    /\ webSocket # 0
    /\ socks[webSocket] = "connecting"
    /\ socks' = [socks EXCEPT ![webSocket] = "open"]
    /\ currentReconnectDelayMs' = ResetDelay
    /\ reconnectAt' = 0
    /\ lastPongTime' = now
    /\ connectionStartTime' = now
    /\ StartTimers(webSocket)
    /\ clientNonce' = IF clientNonce = 0 THEN webSocket ELSE clientNonce
    /\ sent' = Append(sent, [sess |-> webSocket, nonce |-> clientNonce'])
    /\ openPending' = TRUE
    /\ prevGate' = 0
    /\ lastGate' = 0
    /\ UNCHANGED <<auxVars, atSink, sinkError, loopVars, _stop, sleeps, leaseId,
                   recentArticleLinks, now, frames, delivered, closeCall, flagVars>>

\* webSocket.on('open'): the handshake of the current transport succeeded.
OnOpen ==
    /\ webSocket # 0
    /\ socks[webSocket] = "connecting"
    /\ socks' = [socks EXCEPT ![webSocket] = "open"]
    /\ currentReconnectDelayMs' = ResetDelay
    /\ reconnectAt' = 0
    /\ lastPongTime' = now
    /\ connectionStartTime' = now
    /\ StartTimers(webSocket)
    /\ clientNonce' = webSocket
    /\ sent' = Append(sent, [sess |-> webSocket, nonce |-> clientNonce'])
    /\ openPending' = TRUE
    /\ prevGate' = 0
    /\ lastGate' = 0
    /\ UNCHANGED <<auxVars, atSink, sinkError, loopVars, _stop, sleeps, leaseId, recentArticleLinks, now, frames,
                   delivered, closeCall, flagVars>>

\* A message event can be delivered: the current transport is open, or the
\* client has called close() on it and its close event is still to come.
CanReceive ==
    /\ webSocket # 0
    /\ socks[webSocket] \in {"open", "closing"}

\* handleMessage: action 'pong' (hasT: the frame carries t).
RecvPong(hasT) ==
    /\ CanReceive
    /\ frames' = frames + 1
    /\ lastPongTime' = now
    /\ UNCHANGED <<histVars, loopVars, _stop, socks, timerVars, sleeps, currentReconnectDelayMs,
                   reconnectAt, connectionStartTime, leaseId, clientNonce,
                   recentArticleLinks, now, delivered, closeCall, flagVars, gateVars>>

\* Mutant of AdmitFrame: an echoed nonce that differs ends the session.
AdmitFrameEnforcesNonce(lease, nonce) ==
    /\ CanReceive
    /\ frames' = frames + 1
    /\ leaseId' = lease
    /\ IF nonce # 0 /\ nonce # clientNonce
       THEN /\ _stop' = TRUE
            /\ socks' = WsClose(socks)
            /\ closeCall' = 1008
       ELSE UNCHANGED <<_stop, socks, closeCall>>
    /\ UNCHANGED <<loopVars, timerVars, sleeps, currentReconnectDelayMs,
                   reconnectAt, lastPongTime, connectionStartTime, clientNonce,
                   recentArticleLinks, now, delivered, flagVars, gateVars>>

\* handleMessage: action 'admit' (nonce: the echoed clientNonce, 0 = none):
\* the lease is stored, and a nonce that differs is only logged.
AdmitFrame(lease, nonce) ==
    /\ CanReceive
    /\ frames' = frames + 1
    /\ leaseId' = lease
    /\ UNCHANGED <<loopVars, _stop, socks, timerVars, sleeps, currentReconnectDelayMs,
                   reconnectAt, lastPongTime, connectionStartTime, clientNonce,
                   recentArticleLinks, now, delivered, closeCall, flagVars, gateVars>>

\* An admit frame arrives.
RecvAdmit(lease, nonce) ==
    /\ AdmitFrame(lease, nonce)
    /\ UNCHANGED histVars

\* An admit frame arrives, and the log line it draws is noted.
RecvAdmitNoted(lease, nonce) ==
    /\ AdmitFrame(lease, nonce)
    /\ admitEcho' = [echo |-> IF nonce # 0 /\ nonce # clientNonce
                              THEN "warned" ELSE "silent",
                     frame |-> frames + 1]
    /\ UNCHANGED <<sent, atSink, sinkError, closeHook, restVars, webhookVars, transformVars, backoff>>

\* Mutant of RecvPreempted: the stop flag is left as it was.
RecvPreemptedNoStop ==
    /\ CanReceive
    /\ frames' = frames + 1
    /\ socks' = WsClose(socks)
    /\ closeCall' = 1000
    /\ preemptedSeen' = TRUE
    /\ UNCHANGED <<histVars, loopVars, _stop, timerVars, sleeps, currentReconnectDelayMs,
                   reconnectAt, sessVars, recentArticleLinks, now, delivered,
                   stopCalled, closed1008, suppressed, gateVars>>

\* handleMessage: action 'preempted'.
RecvPreempted ==
    /\ CanReceive
    /\ frames' = frames + 1
    /\ _stop' = TRUE
    /\ socks' = WsClose(socks)
    /\ closeCall' = 1000
    /\ preemptedSeen' = TRUE
    /\ UNCHANGED <<histVars, loopVars, timerVars, sleeps, currentReconnectDelayMs, reconnectAt,
                   sessVars, recentArticleLinks, now, delivered, stopCalled,
                   closed1008, suppressed, gateVars>>

\* Set.has(identifier) on a given content of the set.
Has(set, identifier) == \E k \in 1..Len(set) : set[k] = identifier

\* What the sink finds when handleMessage invokes it: onArticle runs after
\* trackArticle, so it sees the set as trackArticle left it.
SetAtSink(identifier) ==
    IF identifier # 0 THEN trackArticle(identifier) ELSE recentArticleLinks

SinkView(identifier) ==
    IF Has(SetAtSink(identifier), identifier) THEN "present" ELSE "absent"

\* Mutant of RecvSendArticle: the identifier is recorded and the article
\* delivered without asking isDuplicate.
RecvSendArticleNoFilter(link) ==
    /\ CanReceive
    /\ frames' = frames + 1
    /\ LET identifier == getArticleIdentifier(link)
       IN  /\ recentArticleLinks' = SetAtSink(identifier)
           /\ atSink' = SinkView(identifier)
           /\ delivered' = Append(delivered, [link |-> link, sess |-> webSocket])
           /\ UNCHANGED suppressed
    /\ UNCHANGED <<auxVars, sent, sinkError, loopVars, _stop, socks, timerVars, sleeps,
                   currentReconnectDelayMs, reconnectAt, sessVars, now, closeCall,
                   stopCalled, preemptedSeen, closed1008, gateVars>>

\* Mutant of RecvSendArticle: the article goes to the head of a queue the
\* sink is served from, newest first.
RecvSendArticleNewestFirst(link) ==
    /\ CanReceive
    /\ frames' = frames + 1
    /\ LET identifier == getArticleIdentifier(link)
       IN  IF identifier # 0 /\ isDuplicate(identifier)
           THEN /\ suppressed' = [link |-> link, sess |-> webSocket]
                /\ UNCHANGED <<recentArticleLinks, delivered, atSink>>
           ELSE /\ recentArticleLinks' = SetAtSink(identifier)
                /\ atSink' = SinkView(identifier)
                /\ delivered' = <<[link |-> link, sess |-> webSocket]>> \o delivered
                /\ UNCHANGED suppressed
    /\ UNCHANGED <<auxVars, sent, sinkError, loopVars, _stop, socks, timerVars, sleeps,
                   currentReconnectDelayMs, reconnectAt, sessVars, now, closeCall,
                   stopCalled, preemptedSeen, closed1008, gateVars>>

\* handleMessage: action 'sendArticle' whose data carries this link; the sink
\* returns normally.
RecvSendArticle(link) ==
    /\ CanReceive
    /\ frames' = frames + 1
    /\ LET identifier == getArticleIdentifier(link)
       IN  IF identifier # 0
           THEN IF isDuplicate(identifier)
                THEN /\ suppressed' = [link |-> link, sess |-> webSocket]
                     /\ UNCHANGED <<recentArticleLinks, delivered, atSink>>
                ELSE /\ recentArticleLinks' = trackArticle(identifier)
                     /\ atSink' = SinkView(identifier)
                     /\ delivered' = Append(delivered, [link |-> link, sess |-> webSocket])
                     /\ UNCHANGED suppressed
           ELSE /\ atSink' = SinkView(identifier)
                /\ delivered' = Append(delivered, [link |-> link, sess |-> webSocket])
                /\ UNCHANGED <<recentArticleLinks, suppressed>>
    /\ UNCHANGED <<auxVars, sent, sinkError, loopVars, _stop, socks, timerVars, sleeps,
                   currentReconnectDelayMs, reconnectAt, sessVars, now, closeCall,
                   stopCalled, preemptedSeen, closed1008, gateVars>>

\* handleMessage: action 'sendArticle' on the raw client, whose identifier is
\* the one the base class derives.
RecvSendArticleRaw(link) ==
    /\ CanReceive
    /\ frames' = frames + 1
    /\ LET identifier == getArticleIdentifierBase(link)
       IN  IF identifier # 0
           THEN IF isDuplicate(identifier)
                THEN /\ suppressed' = [link |-> link, sess |-> webSocket]
                     /\ UNCHANGED <<recentArticleLinks, delivered, atSink>>
                ELSE /\ recentArticleLinks' = trackArticle(identifier)
                     /\ atSink' = SinkView(identifier)
                     /\ delivered' = Append(delivered, [link |-> link, sess |-> webSocket])
                     /\ UNCHANGED suppressed
           ELSE /\ atSink' = SinkView(identifier)
                /\ delivered' = Append(delivered, [link |-> link, sess |-> webSocket])
                /\ UNCHANGED <<recentArticleLinks, suppressed>>
    /\ UNCHANGED <<auxVars, sent, sinkError, loopVars, _stop, socks, timerVars, sleeps,
                   currentReconnectDelayMs, reconnectAt, sessVars, now, closeCall,
                   stopCalled, preemptedSeen, closed1008, gateVars>>

\* Mutant of RecvSendArticleSinkThrows: handleMessage without its try/catch,
\* the exception leaves the handler.
RecvSendArticleSinkEscapes(link) ==
    /\ CanReceive
    /\ ~isDuplicate(getArticleIdentifier(link))
    /\ frames' = frames + 1
    /\ recentArticleLinks' = SetAtSink(getArticleIdentifier(link))
    /\ atSink' = SinkView(getArticleIdentifier(link))
    /\ delivered' = Append(delivered, [link |-> link, sess |-> webSocket])
    /\ sinkError' = "uncaught"
    /\ UNCHANGED <<auxVars, sent, loopVars, _stop, socks, timerVars, sleeps,
                   currentReconnectDelayMs, reconnectAt, sessVars, now, closeCall,
                   flagVars, gateVars>>

\* handleMessage: action 'sendArticle' that is not dropped as a duplicate and
\* whose sink invocation throws: the call onArticle(...) stands inside the try
\* of handleMessage, whose catch logs the error and returns.
RecvSendArticleSinkThrows(link) ==
    /\ CanReceive
    /\ ~isDuplicate(getArticleIdentifier(link))
    /\ frames' = frames + 1
    /\ recentArticleLinks' = SetAtSink(getArticleIdentifier(link))
    /\ atSink' = SinkView(getArticleIdentifier(link))
    /\ delivered' = Append(delivered, [link |-> link, sess |-> webSocket])
    /\ sinkError' = "caught"
    /\ UNCHANGED <<auxVars, sent, loopVars, _stop, socks, timerVars, sleeps,
                   currentReconnectDelayMs, reconnectAt, sessVars, now, closeCall,
                   flagVars, gateVars>>

\* handleMessage: action 'admin_kick' (has: the frame carries retryAfter = val).
RecvAdminKick(has, val) ==
    /\ CanReceive
    /\ frames' = frames + 1
    /\ LET retryAfter == IF has /\ val # 0 THEN val ELSE DefaultKickMs
       IN  /\ reconnectAt' = now + retryAfter
    /\ socks' = WsClose(socks)
    /\ closeCall' = 4003
    /\ UNCHANGED <<histVars, loopVars, _stop, timerVars, sleeps, currentReconnectDelayMs,
                   sessVars, recentArticleLinks, now, delivered, flagVars, gateVars>>

\* Mutant of RecvError: "blocked" is looked for before "limit".
RecvErrorBlockedFirst(limit, blocked) ==
    /\ CanReceive
    /\ frames' = frames + 1
    /\ IF blocked
       THEN /\ reconnectAt' = now + BlockedWaitMs
            /\ socks' = WsClose(socks)
            /\ closeCall' = 4002
       ELSE IF limit
       THEN /\ reconnectAt' = now + RateLimitWaitMs
            /\ socks' = WsClose(socks)
            /\ closeCall' = 4001
       ELSE UNCHANGED <<reconnectAt, socks, closeCall>>
    /\ UNCHANGED <<histVars, loopVars, _stop, timerVars, sleeps, currentReconnectDelayMs,
                   sessVars, recentArticleLinks, now, delivered, flagVars, gateVars>>

\* handleMessage: action 'error' (limit, blocked: the lower-cased text of the
\* frame includes "limit", "blocked").
RecvError(limit, blocked) ==
    /\ CanReceive
    /\ frames' = frames + 1
    /\ IF limit
       THEN /\ reconnectAt' = now + RateLimitWaitMs
            /\ socks' = WsClose(socks)
            /\ closeCall' = 4001
       ELSE IF blocked
       THEN /\ reconnectAt' = now + BlockedWaitMs
            /\ socks' = WsClose(socks)
            /\ closeCall' = 4002
       ELSE UNCHANGED <<reconnectAt, socks, closeCall>>
    /\ UNCHANGED <<histVars, loopVars, _stop, timerVars, sleeps, currentReconnectDelayMs,
                   sessVars, recentArticleLinks, now, delivered, flagVars, gateVars>>

\* Mutant of RecvOther: a frame that cannot be routed tears the session down.
RecvOtherClosesTransport(bad) ==
    /\ CanReceive
    /\ frames' = frames + 1
    /\ socks' = IF bad THEN WsClose(socks) ELSE socks
    /\ UNCHANGED <<histVars, loopVars, _stop, timerVars, sleeps, currentReconnectDelayMs,
                   reconnectAt, sessVars, recentArticleLinks, now, delivered,
                   closeCall, flagVars, gateVars>>

\* handleMessage: any other action, and a frame JSON.parse or the read of
\* msg.action throws on (bad: the catch of handleMessage runs).
RecvOther(bad) ==
    /\ CanReceive
    /\ frames' = frames + 1
    /\ UNCHANGED <<histVars, loopVars, _stop, socks, timerVars, sleeps, currentReconnectDelayMs,
                   reconnectAt, sessVars, recentArticleLinks, now, delivered,
                   closeCall, flagVars, gateVars>>

\* Mutant of OnClose: the handler runs handleClose and never calls resolve().
OnCloseNoResolve(code) ==
    /\ pc = "awaitWs"
    /\ socks[webSocket] \in {"open", "closing"}
    /\ ClearTimers
    /\ _stop' = StopAfterClose(code)
    /\ closed1008' = (closed1008 \/ code = 1008)
    /\ sleeps' = sleeps (+) SeqToBag(SleepsAfterClose(code))
    /\ NoteWaits(SleepsAfterClose(code))
    /\ socks' = [socks EXCEPT ![webSocket] = "closed"]
    /\ UNCHANGED <<histVars, loopVars, closeCall, currentReconnectDelayMs, reconnectAt,
                   sessVars, recentArticleLinks, now, frames, delivered, stopCalled,
                   preemptedSeen, suppressed>>

\* Mutant of onClose: the hook is called before clearTimers().
onCloseBeforeClearTimers(i, code, throws) ==
    closeHook' = [calls |-> closeHook.calls + 1, sess |-> i, code |-> code,
                  handles |-> <<pingInterval, pongWatchdog, rotationTimeout>>,
                  caught |-> throws]

\* handleClose(code): `if (this.onClose) { try { this.onClose(code, reason) }
\* catch ... }` of a client that was given the hook, called for the close of
\* transport i after clearTimers() (throws: the hook throws, and the catch
\* logs it).
onClose(i, code, throws) ==
    closeHook' = [calls |-> closeHook.calls + 1, sess |-> i, code |-> code,
                  handles |-> <<pingInterval', pongWatchdog', rotationTimeout'>>,
                  caught |-> throws]

\* webSocket.on('close') of the current transport while connect() awaits it:
\* handleClose(code) but for its hook, resolve(), and the loop goes round.
CloseEvent(code) ==
    /\ pc = "awaitWs"
    /\ socks[webSocket] \in {"open", "closing"}
    /\ ClearTimers
    /\ _stop' = StopAfterClose(code)
    /\ closed1008' = (closed1008 \/ code = 1008)
    /\ sleeps' = sleeps (+) SeqToBag(SleepsAfterClose(code))
    /\ NoteWaits(SleepsAfterClose(code))
    /\ LoopHead(StopAfterClose(code), [socks EXCEPT ![webSocket] = "closed"])
    /\ UNCHANGED <<currentReconnectDelayMs, reconnectAt, sessVars, recentArticleLinks,
                   now, frames, delivered, stopCalled, preemptedSeen, suppressed>>

\* The close event of the current transport, on a client without the hook.
OnClose(code) ==
    /\ CloseEvent(code)
    /\ UNCHANGED histVars

\* The close event of the current transport, on a client with the hook.
OnCloseHook(code, throws) ==
    /\ CloseEvent(code)
    /\ onClose(webSocket, code, throws)
    /\ UNCHANGED <<sent, atSink, sinkError, restVars, webhookVars, admitEcho, transformVars, backoff>>

\* webSocket.on('error') of the current transport while connect() awaits it:
\* reject(error), and the catch block runs (is429: the message includes '429').
OnError(is429) ==
    /\ pc = "awaitWs"
    /\ socks[webSocket] \in {"connecting", "aborting", "open", "closing"}
    /\ is429 => socks[webSocket] = "connecting"
    /\ reconnectAt' = ReconnectAtAfterError(is429)
    /\ LET ws == SleepsAfterError(_stop, ReconnectAtAfterError(is429))
       IN  /\ sleeps' = sleeps (+) SeqToBag(ws)
           /\ NoteWaits(ws)
           /\ IF Len(ws) > 0
              THEN /\ pc' = "sleeping"
                   /\ socks' = [socks EXCEPT ![webSocket] = "errored"]
                   /\ UNCHANGED <<webSocket, closeCall>>
              ELSE LoopHead(_stop, [socks EXCEPT ![webSocket] = "errored"])
    /\ UNCHANGED <<histVars, _stop, timerVars, currentReconnectDelayMs, sessVars,
                   recentArticleLinks, now, frames, delivered, flagVars>>

\* The transport emits 'error' and then 'close' in one turn: reject(error),
\* handleClose(code) but for its hook, and only then the catch block.
ErrorCloseEvent(is429, code) ==
    /\ pc = "awaitWs"
    /\ socks[webSocket] \in {"connecting", "aborting", "open", "closing"}
    /\ is429 => socks[webSocket] = "connecting"
    /\ ClearTimers
    /\ _stop' = StopAfterClose(code)
    /\ closed1008' = (closed1008 \/ code = 1008)
    /\ reconnectAt' = ReconnectAtAfterError(is429)
    /\ LET ws == SleepsAfterClose(code)
                 \o SleepsAfterError(StopAfterClose(code), ReconnectAtAfterError(is429))
       IN  /\ sleeps' = sleeps (+) SeqToBag(ws)
           /\ NoteWaits(ws)
           /\ IF Len(ws) > 0
              THEN /\ pc' = "sleeping"
                   /\ socks' = [socks EXCEPT ![webSocket] = "closed"]
                   /\ UNCHANGED <<webSocket, closeCall>>
              ELSE LoopHead(StopAfterClose(code), [socks EXCEPT ![webSocket] = "closed"])
    /\ UNCHANGED <<currentReconnectDelayMs, sessVars, recentArticleLinks, now, frames,
                   delivered, stopCalled, preemptedSeen, suppressed>>

\* 'error' and then 'close' in one turn, on a client without the hook.
OnErrorClose(is429, code) ==
    /\ ErrorCloseEvent(is429, code)
    /\ UNCHANGED histVars

\* 'error' and then 'close' in one turn, on a client with the hook.
OnErrorCloseHook(is429, code, throws) ==
    /\ ErrorCloseEvent(is429, code)
    /\ onClose(webSocket, code, throws)
    /\ UNCHANGED <<sent, atSink, sinkError, restVars, webhookVars, admitEcho, transformVars, backoff>>

\* webSocket.on('close') of a transport whose 'error' event was handled
\* earlier: handleClose(code) but for its hook; its resolve() finds the
\* promise settled.
LateCloseEvent(i, code) ==
    /\ socks[i] = "errored"
    /\ socks' = [socks EXCEPT ![i] = "closed"]
    /\ ClearTimers
    /\ _stop' = StopAfterClose(code)
    /\ closed1008' = (closed1008 \/ code = 1008)
    /\ sleeps' = sleeps (+) SeqToBag(SleepsAfterClose(code))
    /\ NoteWaits(SleepsAfterClose(code))
    /\ UNCHANGED <<loopVars, currentReconnectDelayMs, reconnectAt, sessVars,
                   recentArticleLinks, now, frames, delivered, closeCall, stopCalled,
                   preemptedSeen, suppressed>>

\* The late close event, on a client without the hook.
OnLateClose(i, code) ==
    /\ LateCloseEvent(i, code)
    /\ UNCHANGED histVars

\* The late close event, on a client with the hook.
OnLateCloseHook(i, code, throws) ==
    /\ LateCloseEvent(i, code)
    /\ onClose(i, code, throws)
    /\ UNCHANGED <<sent, atSink, sinkError, restVars, webhookVars, admitEcho, transformVars, backoff>>


\* The setInterval callback of startPingInterval fires.
PingTick(t) ==
    /\ t.kind = "ping"
    /\ t.at <= now
    /\ timers' = (timers \ {t}) \cup {[t EXCEPT !.at = @ + pingIntervalMs]}
    /\ UNCHANGED <<histVars, loopVars, _stop, socks, pingInterval, pongWatchdog, rotationTimeout,
                   sleeps, currentReconnectDelayMs, reconnectAt, sessVars,
                   recentArticleLinks, now, frames, delivered, closeCall, flagVars, gateVars>>

\* Mutant of WatchdogTick: the tick compares with the ping interval.
WatchdogTickPingInterval(t) ==
    /\ t.kind = "watchdog"
    /\ t.at <= now
    /\ timers' = (timers \ {t}) \cup {[t EXCEPT !.at = @ + WatchdogPeriodMs]}
    /\ IF now - lastPongTime >= pingIntervalMs
       THEN /\ socks' = WsClose(socks)
            /\ closeCall' = 1005
       ELSE UNCHANGED <<socks, closeCall>>
    /\ UNCHANGED <<histVars, loopVars, _stop, pingInterval, pongWatchdog, rotationTimeout,
                   sleeps, currentReconnectDelayMs, reconnectAt, sessVars,
                   recentArticleLinks, now, frames, delivered, flagVars, gateVars>>

\* The setInterval callback of startPongWatchdog fires.
WatchdogTick(t) ==
    /\ t.kind = "watchdog"
    /\ t.at <= now
    /\ timers' = (timers \ {t}) \cup {[t EXCEPT !.at = @ + WatchdogPeriodMs]}
    /\ IF now - lastPongTime > pongTimeoutMs
       THEN /\ socks' = WsClose(socks)
            /\ closeCall' = 1005
       ELSE UNCHANGED <<socks, closeCall>>
    /\ UNCHANGED <<histVars, loopVars, _stop, pingInterval, pongWatchdog, rotationTimeout,
                   sleeps, currentReconnectDelayMs, reconnectAt, sessVars,
                   recentArticleLinks, now, frames, delivered, flagVars, gateVars>>

\* The setTimeout callback of startProactiveRotation fires.
RotationFire(t) ==
    /\ t.kind = "rotation"
    /\ t.at <= now
    /\ timers' = timers \ {t}
    /\ socks' = WsClose(socks)
    /\ closeCall' = 4000
    /\ UNCHANGED <<histVars, loopVars, _stop, pingInterval, pongWatchdog, rotationTimeout,
                   sleeps, currentReconnectDelayMs, reconnectAt, sessVars,
                   recentArticleLinks, now, frames, delivered, flagVars, gateVars>>

\* The setTimeout of sleep(ms) fires: handleReconnect resumes, and connect()
\* resumes after it when it awaits that call.
SleepDone(w) ==
    /\ w.at <= now
    /\ sleeps' = sleeps (-) SetToBag({w})
    /\ currentReconnectDelayMs' =
          IF w.exp
          THEN NextDelay(currentReconnectDelayMs)
          ELSE currentReconnectDelayMs
    /\ IF w.awaited
       THEN LoopHead(_stop, socks)
       ELSE UNCHANGED <<loopVars, socks, closeCall>>
    /\ UNCHANGED <<histVars, _stop, timerVars, reconnectAt, sessVars, recentArticleLinks, now,
                   frames, delivered, flagVars, gateVars>>

\* Mutant of Stop: the call flips the stop flag.
StopToggles ==
    /\ _stop' = ~_stop
    /\ ClearTimers
    /\ socks' = WsClose(socks)
    /\ closeCall' = IF webSocket = 0 THEN closeCall ELSE 1005
    /\ stopCalled' = TRUE
    /\ UNCHANGED <<histVars, loopVars, sleeps, currentReconnectDelayMs, reconnectAt,
                   sessVars, recentArticleLinks, now, frames, delivered, preemptedSeen,
                   closed1008, suppressed, gateVars>>

\* The caller invokes stop() (or disconnect()).
Stop ==
    /\ _stop' = TRUE
    /\ ClearTimers
    /\ socks' = WsClose(socks)
    /\ closeCall' = IF webSocket = 0 THEN closeCall ELSE 1005
    /\ stopCalled' = TRUE
    /\ UNCHANGED <<histVars, loopVars, sleeps, currentReconnectDelayMs, reconnectAt, sessVars,
                   recentArticleLinks, now, frames, delivered, preemptedSeen,
                   closed1008, suppressed, gateVars>>

\* The instants at which a pending timer is due.
Deadlines ==
    {t.at : t \in timers} \cup {w.at : w \in BagToSet(sleeps)}

SetMin(S) == CHOOSE x \in S : \A y \in S : x <= y

\* Time passes until the next timer is due: timers fire on time, and every
\* other event happens at the instant of some timer or of the start.
Advance ==
    /\ pc # "init"
    /\ now < MaxTime
    /\ \A d \in Deadlines : d > now
    /\ Deadlines # {}
    /\ now' = SetMin(Deadlines)
    /\ UNCHANGED <<histVars, loopVars, _stop, socks, timerVars, sleeps, currentReconnectDelayMs,
                   reconnectAt, sessVars, recentArticleLinks, frames, delivered,
                   closeCall, flagVars, gateVars>>

\* ------------------------------------------------------------ ApiClient

streamVars == <<pc, _stop, webSocket, socks, timerVars, sleeps, currentReconnectDelayMs,
                reconnectAt, sessVars, recentArticleLinks, now, frames, delivered,
                closeCall, flagVars, gateVars, sent, atSink, sinkError, closeHook>>

\* const maxRetries = this.config.retryCount ?? 3
maxRetries == IF retryCount = NoRetryCount THEN DefaultRetryCount ELSE retryCount

\* Mutant of isRetryableError: every failure is worth another attempt.
isRetryableErrorAny(status) == TRUE

\* isRetryableError(error): error.response?.status is one of the five.
isRetryableError(status) == status \in {429, 500, 502, 503, 504}

\* calculateBackoff(attempt)
calculateBackoff(attempt) == baseWait * 2 ^ (attempt - 1)

\* while (attempts < maxRetries) { ... this.client.request(...) ... } throw new
\* Error('Max retries reached'): the loop head of request(), a being attempts.
RequestLoop(a) ==
    IF a < maxRetries
    THEN /\ apiPc' = "requesting"
         /\ requests' = requests + 1
         /\ UNCHANGED thrown
    ELSE /\ apiPc' = "thrown"
         /\ thrown' = [kind |-> "maxRetries", status |-> 0]
         /\ UNCHANGED requests

\* A caller invokes request() and awaits it.
Request ==
    /\ apiPc \in {"idle", "returned", "thrown"}
    /\ attempts' = 0
    /\ failures' = <<>>
    /\ waits' = <<>>
    /\ apiPc' = IF 0 < maxRetries THEN "requesting" ELSE "thrown"
    /\ requests' = IF 0 < maxRetries THEN 1 ELSE 0
    /\ thrown' = IF 0 < maxRetries
                 THEN [kind |-> "none", status |-> 0]
                 ELSE [kind |-> "maxRetries", status |-> 0]
    /\ UNCHANGED <<streamVars, admitEcho, backoff, transformVars, webhookVars, retryCount>>

\* The HTTP request succeeds: return response.data.
RequestSucceeds ==
    /\ apiPc = "requesting"
    /\ apiPc' = "returned"
    /\ UNCHANGED <<streamVars, admitEcho, backoff, transformVars, webhookVars, retryCount, attempts, requests, failures, waits, thrown>>

\* The HTTP request fails with this status: the catch block of request().
RequestFails(status) ==
    /\ apiPc = "requesting"
    /\ attempts' = attempts + 1
    /\ failures' = Append(failures, status)
    /\ IF attempts + 1 = maxRetries \/ ~isRetryableError(status)
       THEN /\ apiPc' = "thrown"
            /\ thrown' = [kind |-> "http", status |-> status]
            /\ UNCHANGED waits
       ELSE /\ apiPc' = "delaying"
            /\ waits' = Append(waits, calculateBackoff(attempts + 1))
            /\ UNCHANGED thrown
    /\ UNCHANGED <<streamVars, admitEcho, backoff, transformVars, webhookVars, retryCount, requests>>

\* The setTimeout of delay(waitTime) fires: the loop goes round.
DelayDone ==
    /\ apiPc = "delaying"
    /\ RequestLoop(attempts)
    /\ UNCHANGED <<streamVars, admitEcho, backoff, transformVars, webhookVars, retryCount, attempts, failures, waits>>

\* The receiver calls WebhookService.constructEvent with its arguments.
ConstructEvent ==
    /\ webhookResult = "pending"
    /\ webhookResult' = constructEvent(webhookArgs.rawBody, webhookArgs.signature,
                                       webhookArgs.endpointSecret, webhookArgs.timestamp,
                                       webhookArgs.currentTime)
    /\ UNCHANGED <<streamVars, admitEcho, backoff, transformVars, restVars, webhookArgs>>

\* transformMessage of the enriched client, and parsePayload of the webhook
\* verifier, hand the parsed article to transformArticle.
TransformArticle ==
    /\ ~transformed.done
    /\ transformed' = [done |-> TRUE, article |-> transformArticle(rawArticle)]
    /\ UNCHANGED <<streamVars, admitEcho, backoff, restVars, webhookVars, rawArticle>>

\* resetBackoff(), called by the open handler, for a client with any options.
BackoffResets ==
    /\ backoff' = [backoff EXCEPT !.current = backoff.base]
    /\ UNCHANGED <<streamVars, admitEcho, restVars, webhookVars, transformVars>>

\* handleReconnect() after the await of its exponential branch, for a client
\* with any options.
BackoffDoubles ==
    /\ backoff.doublings < MaxDoublings
    /\ backoff' = [backoff EXCEPT !.current = DoubledDelay(backoff.current, backoff.max),
                                  !.doublings = @ + 1]
    /\ UNCHANGED <<streamVars, admitEcho, restVars, webhookVars, transformVars>>

\* ------------------------------------------------------- specifications

Receive ==
    \/ \E hasT \in BOOLEAN : RecvPong(hasT)
    \/ \E lease \in Leases, nonce \in 0..MaxAttempts : RecvAdmit(lease, nonce)
    \/ RecvPreempted
    \/ \E link \in Links : RecvSendArticle(link)
    \/ \E has \in BOOLEAN, val \in KickValues : RecvAdminKick(has, val)
    \/ \E limit, blocked \in BOOLEAN : RecvError(limit, blocked)
    \/ \E bad \in BOOLEAN : RecvOther(bad)

Next ==
    \/ Connect
    \/ OnOpen
    \/ frames < MaxFrames /\ Receive
    \/ \E code \in CloseCodes : OnClose(code)
    \/ \E is429 \in BOOLEAN : OnError(is429)
    \/ \E is429 \in BOOLEAN, code \in CloseCodes : OnErrorClose(is429, code)
    \/ \E i \in 1..Len(socks), code \in CloseCodes : OnLateClose(i, code)
    \/ \E t \in timers : PingTick(t)
    \/ \E t \in timers : WatchdogTick(t)
    \/ \E t \in timers : RotationFire(t)
    \/ \E w \in BagToSet(sleeps) : SleepDone(w)
    \/ Stop
    \/ Advance

Spec == Init /\ [][Next]_vars

\* The supervisor under the assumption that time passes and that a timer that
\* is due fires.
Fairness ==
    /\ WF_vars(Advance)
    /\ WF_vars(\E w \in BagToSet(sleeps) : SleepDone(w))
    /\ WF_vars(\E t \in timers : PingTick(t))
    /\ WF_vars(\E t \in timers : WatchdogTick(t))
    /\ WF_vars(\E t \in timers : RotationFire(t))

SpecLive == Init /\ [][Next]_vars /\ Fairness

\* The transport connect() awaits delivers its close or error event.
TransportEnds ==
    \/ \E code \in CloseCodes : OnClose(code)
    \/ \E is429 \in BOOLEAN : OnError(is429)
    \/ \E is429 \in BOOLEAN, code \in CloseCodes : OnErrorClose(is429, code)

\* The supervisor under the further assumption that, once the stop flag is
\* set, the awaited transport delivers its close or error event.
StopFairness == WF_vars(_stop /\ TransportEnds)

SpecStop == Init /\ [][Next]_vars /\ Fairness /\ StopFairness

\* The duplicate filter: a server that sends articles with links 1, 2, 3, ...
\* in this order, resends the first and the latest of them, sends articles
\* without a link, and closes the transport at any point of the stream.
DeliveredLinks == {delivered[k].link : k \in 1..Len(delivered)}

FreshLink == Cardinality(DeliveredLinks \ {0}) + 1

Empties == Cardinality({k \in 1..Len(delivered) : delivered[k].link = 0})

DedupLinks ==
    {FreshLink} \cup ({1, FreshLink - 1} \ {0})
        \cup (IF Empties < MaxEmpty THEN {0} ELSE {})

NextDedup ==
    \/ Connect
    \/ OnOpen
    \/ frames < MaxArticles /\ \E link \in DedupLinks : RecvSendArticle(link)
    \/ \E code \in CloseCodes : OnClose(code)

SpecDedup == Init /\ [][NextDedup]_vars

\* The sink: a caller whose sink may throw on any article it is given, on a
\* stream that is opened, closed and stopped at any point.
NextSink ==
    \/ Connect
    \/ OnOpen
    \/ frames < MaxSinkFrames /\ \E link \in Links : RecvSendArticle(link)
    \/ frames < MaxSinkFrames /\ \E link \in Links : RecvSendArticleSinkThrows(link)
    \/ \E code \in CloseCodes : OnClose(code)
    \/ Stop

SpecSink == Init /\ [][NextSink]_vars

\* Malformed frames: a server that mixes frames that cannot be parsed or
\* routed with articles, on a stream opened and closed at any point.
NextMalformed ==
    \/ Connect
    \/ OnOpen
    \/ frames < MaxSinkFrames /\ \E bad \in BOOLEAN : RecvOther(bad)
    \/ frames < MaxSinkFrames /\ \E link \in Links : RecvSendArticle(link)
    \/ \E code \in CloseCodes : OnClose(code)

SpecMalformed == Init /\ [][NextMalformed]_vars

\* The raw stream: a server that sends and resends articles with and without
\* links, on a stream opened and closed at any point.
NextRaw ==
    \/ Connect
    \/ OnOpen
    \/ frames < MaxSinkFrames /\ \E link \in Links : RecvSendArticleRaw(link)
    \/ \E code \in CloseCodes : OnClose(code)

SpecRaw == Init /\ [][NextRaw]_vars

\* The close hook: a caller whose onClose hook may throw on any call, on a
\* stream whose transports fail, close and are stopped at any point.
NextHook ==
    \/ Connect
    \/ OnOpen
    \/ \E code \in CloseCodes, throws \in BOOLEAN : OnCloseHook(code, throws)
    \/ \E is429 \in BOOLEAN : OnError(is429)
    \/ \E is429 \in BOOLEAN, code \in CloseCodes, throws \in BOOLEAN :
          OnErrorCloseHook(is429, code, throws)
    \/ \E i \in 1..Len(socks), code \in CloseCodes, throws \in BOOLEAN :
          OnLateCloseHook(i, code, throws)
    \/ \E w \in BagToSet(sleeps) : SleepDone(w)
    \/ Stop
    \/ Advance

SpecHook == Init /\ [][NextHook]_vars

\* The REST client: an ApiClient with any retryCount, or none, whose requests
\* succeed or fail with any status; a request that was sent is answered and
\* a delay that was started ends.
InitRetry ==
    /\ InitStream
    /\ retryCount \in {NoRetryCount} \cup 0..MaxRetryCount
    /\ InitRest
    /\ InitWebhook
    /\ InitTransform
    /\ InitBackoff

NextRetry ==
    \/ Request
    \/ RequestSucceeds
    \/ \E status \in Statuses : RequestFails(status)
    \/ DelayDone

SpecRetry ==
    InitRetry /\ [][NextRetry]_vars
        /\ WF_vars(RequestSucceeds \/ \E status \in Statuses : RequestFails(status))
        /\ WF_vars(DelayDone)

\* The webhook verifier: constructEvent applied to any body, signature and
\* timestamp a sender may produce.
InitEvent ==
    /\ InitStream
    /\ retryCount = NoRetryCount
    /\ InitRest
    /\ webhookArgs \in WebhookCalls
    /\ webhookResult = "pending"
    /\ InitTransform
    /\ InitBackoff

NextEvent == ConstructEvent

SpecEvent == InitEvent /\ [][NextEvent]_vars

\* Admission: a server that sends admit frames with any echoed nonce, or
\* none, among the articles of a stream opened and closed at any point.
NextAdmit ==
    \/ Connect
    \/ OnOpen
    \/ frames < MaxSinkFrames /\ \E lease \in Leases, nonce \in 0..MaxAttempts :
          RecvAdmitNoted(lease, nonce)
    \/ frames < MaxSinkFrames /\ \E link \in Links : RecvSendArticle(link)
    \/ \E code \in CloseCodes : OnClose(code)

SpecAdmit == Init /\ [][NextAdmit]_vars

\* The transformer: transformArticle applied to any inbound article.
InitArticle ==
    /\ InitStream
    /\ retryCount = NoRetryCount
    /\ InitRest
    /\ InitWebhook
    /\ rawArticle \in RawArticles
    /\ transformed = [done |-> FALSE, article |-> rawArticle]
    /\ InitBackoff

NextArticle == TransformArticle

SpecArticle == InitArticle /\ [][NextArticle]_vars

\* The delay: a client constructed with any delay options, whose delay is
\* reset and doubled in any order, as opens and completed waits occur.
InitDelay ==
    /\ InitStream
    /\ retryCount = NoRetryCount
    /\ InitRest
    /\ InitWebhook
    /\ InitTransform
    /\ backoff \in {[base |-> b, max |-> m, current |-> b, doublings |-> 0] :
                       b \in DelayOptions, m \in DelayOptions}

NextDelayStep ==
    \/ BackoffResets
    \/ BackoffDoubles

SpecDelay == InitDelay /\ [][NextDelayStep]_vars


\* ----------------------------------------------------------------- claims

\* A step in which connect() constructs a WebSocket: a connect attempt begins.
AttemptBegins == Len(socks') > Len(socks)

\* A step in which handleReconnect starts a wait.
WaitStarts == BagCardinality(sleeps') > BagCardinality(sleeps)

\* C1: while the forced wait set by a limit, blocked or admin_kick event is
\* pending (reconnectAt is set and lies in the future), no connect attempt
\* begins, however the session ends.
C1_ForcedWaitRespected ==
    [][AttemptBegins => ~(reconnectAt # 0 /\ now < reconnectAt)]_vars

\* C2: once stop() has been invoked the stop flag stays set and no connect
\* attempt begins, in whatever state the supervisor was.
C2_StopIsFinal ==
    [][stopCalled => (_stop /\ _stop' /\ ~AttemptBegins)]_vars

C2_Witness ==
    /\ stopCalled
    /\ pc = "done"
    /\ Len(socks) = MaxAttempts
    /\ lastGate # 0

\* C3: handling a preempted frame sets the stop flag and calls close(1000) on
\* the transport; from then on the flag stays set, no reconnect wait is
\* started, no connect attempt begins, and connect() has returned as soon as
\* the transport's close or error event has been handled.
C3_PreemptionStops ==
    [][ /\ RecvPreempted => (_stop' /\ closeCall' = 1000)
        /\ preemptedSeen => (_stop' /\ ~AttemptBegins /\ ~WaitStarts)
        /\ (preemptedSeen' /\ socks'[webSocket'] \in {"closed", "errored"})
              => pc' = "done" ]_vars

C3_Witness ==
    /\ preemptedSeen
    /\ ~stopCalled
    /\ ~closed1008
    /\ closeCall = 1000
    /\ pc = "done"

\* C4: a close event with code 1008 sets the stop flag without stop() having
\* been called; its handler starts no reconnect wait, and neither that step
\* nor any later one begins a connect attempt.
C4_Close1008Halts ==
    [][closed1008' => (_stop' /\ ~AttemptBegins /\ ~WaitStarts)]_vars

C4_Witness ==
    /\ closed1008
    /\ ~stopCalled
    /\ ~preemptedSeen
    /\ pc = "done"

\* C5: when a transport is constructed, the close handler of every transport
\* constructed before it has run (that transport is closed), on every path.
C5_OneSessionAtATime ==
    \A i \in 1..(Len(socks) - 1) : socks[i] = "closed"

\* C6: while the stop flag is unset, a supervisor that is not awaiting a
\* transport (it waits to reconnect after a session ended) eventually begins a
\* connect attempt, as far as the bounds on attempts and on time let it.
C6_EventuallyReconnects ==
    (pc \in {"sleeping", "done"} /\ ~_stop /\ Len(socks) < MaxAttempts)
        ~> (pc = "awaitWs" \/ _stop \/ now >= MaxTime)

C6_Witness ==
    /\ pc = "awaitWs"
    /\ ~_stop
    /\ Len(socks) = 2
    /\ lastGate # 0
    /\ now > 0

\* C7: from a successful open until the next exponential wait starts,
\* currentReconnectDelayMs is the base delay, so that wait lasts the base delay.
C7_OpenResetsDelay ==
    openPending => currentReconnectDelayMs = baseReconnectDelayMs

\* C8: of two consecutive awaited exponential waits with no open between
\* them, the later lasts min(2 x the earlier, maxReconnectDelay).
C8_DelayDoublesOnce ==
    (prevGate # 0 /\ lastGate # 0) => lastGate = NextDelay(prevGate)

\* The distinct other links delivered between deliveries i and j.
OthersBetween(i, j) ==
    {delivered[k].link : k \in (i + 1)..(j - 1)} \ {delivered[i].link}

\* A link is delivered again after an earlier session delivered it only when
\* at least RECENT_ARTICLE_CACHE_SIZE other links were delivered in between.
NoRedelivery(links) ==
    \A i, j \in 1..Len(delivered) :
        ( /\ i < j
          /\ delivered[i].link \in links
          /\ delivered[i].link = delivered[j].link
          /\ delivered[i].sess < delivered[j].sess )
            => Cardinality(OthersBetween(i, j)) >= RECENT_ARTICLE_CACHE_SIZE

AllLinks == 0..(MaxArticles + 2)

\* C9 as stated: an article whose link an earlier session delivered is not
\* delivered again while fewer than 10 other links were delivered in between,
\* whatever its link is.
C9_Original == NoRedelivery(AllLinks)

\* C9, amended: the duplicate set changes in no step but the handling of a
\* sendArticle frame (so it is kept across close and reopen); an article with
\* a non-empty link that an earlier session delivered is not delivered again
\* while fewer than 10 other links were delivered in between; and an article
\* whose link is not in the set is delivered.
C9_SuppressionAcrossSessions ==
    [][ /\ NoRedelivery(AllLinks \ {0})'
        /\ (\A l \in AllLinks : ~RecvSendArticle(l))
              => recentArticleLinks' = recentArticleLinks
        /\ \A l \in AllLinks :
              (RecvSendArticle(l) /\ ~isDuplicate(l))
                 => delivered' = Append(delivered, [link |-> l, sess |-> webSocket])
      ]_vars

C9_Witness ==
    /\ suppressed.link # 0
    /\ \E i \in 1..Len(delivered) :
          /\ delivered[i].link = suppressed.link
          /\ delivered[i].sess < suppressed.sess
    /\ \E j \in 1..Len(delivered) :
          /\ delivered[j].sess = suppressed.sess
          /\ delivered[j].link # 0
    /\ \E k \in 1..Len(delivered) :
          /\ delivered[k].link = 1
          /\ delivered[k].sess = 2

\* C10: the duplicate set never holds more than RECENT_ARTICLE_CACHE_SIZE
\* identifiers.
C10_CacheBounded ==
    Len(recentArticleLinks) <= RECENT_ARTICLE_CACHE_SIZE

C10_Witness ==
    /\ Len(recentArticleLinks) = RECENT_ARTICLE_CACHE_SIZE
    /\ recentArticleLinks[1] # 1
    /\ Len(socks) = 2

\* The link of the article the sink was last invoked with, in the next state.
LastDelivered == delivered'[Len(delivered')].link

\* C11 as stated: at the moment the sink is invoked for an article, the
\* identifier of that article is not in the duplicate set.
C11_Original == atSink # "present"

\* C11, amended: an article is delivered only if its identifier was not in
\* the duplicate set when the handling of its frame began; handleMessage
\* records a non-empty identifier before it invokes the sink, so at the
\* moment of the invocation the identifier is in the set.
C11_NotInSetBeforeDelivery ==
    [][ delivered' # delivered =>
           /\ ~isDuplicate(LastDelivered)
           /\ LastDelivered # 0 =>
                 (atSink' = "present" /\ Has(recentArticleLinks', LastDelivered))
           /\ LastDelivered = 0 => atSink' = "absent" ]_vars

C11_Witness ==
    /\ atSink = "present"
    /\ Len(delivered) > RECENT_ARTICLE_CACHE_SIZE
    /\ delivered[Len(delivered)].link = 1
    /\ delivered[1].link = 1

\* C12: a subscription frame is sent in the open handler and in no other
\* step; it carries a clientNonce generated in that handler, which no earlier
\* frame carried; every open session has been sent exactly one.
C12_OneSubscriptionPerSession ==
    [][ /\ OnOpen =>
              /\ sent' = Append(sent, [sess |-> webSocket, nonce |-> clientNonce'])
              /\ \A k \in 1..Len(sent) :
                    sent[k].nonce # clientNonce' /\ sent[k].sess # webSocket
        /\ ~OnOpen => sent' = sent
        /\ \A i \in 1..Len(socks') :
              socks'[i] = "open" =>
                 Cardinality({k \in 1..Len(sent') : sent'[k].sess = i}) = 1 ]_vars

C12_Witness ==
    /\ Len(sent) = 2
    /\ sent[1].nonce # sent[2].nonce
    /\ socks[2] = "open"
    /\ frames > 0

\* C13: once the transport of session N+1 has been constructed, no ping,
\* watchdog or rotation timer started in session N is active.
C13_NoTimerOutlivesSession ==
    \A t \in timers : t.sess >= Len(socks)

\* C14: the rotation timer started in a session fires only in that session,
\* that is while the transport of that session is the client's transport and
\* its close handler has not run, at the instant the session has been open for
\* connectionLifetime; it then calls close(4000) on that transport.
C14_RotationOnlyInItsSession ==
    [][ \A t \in timers :
           RotationFire(t) =>
              /\ t.sess = webSocket
              /\ socks[t.sess] # "closed"
              /\ now = connectionStartTime + connectionLifetimeMs
              /\ closeCall' = 4000 ]_vars

\* C15: a watchdog tick calls close() on the transport only when more than
\* pongTimeout has passed since lastPongTime, which is the instant of the last
\* open or of the last pong handled after it, so never within pongTimeout
\* after an open; the call carries no code, and the tick changes neither the
\* stop flag nor reconnectAt.
C15_WatchdogRespectsPongTimeout ==
    [][ /\ \A t \in timers :
              WatchdogTick(t) =>
                 /\ _stop' = _stop
                 /\ reconnectAt' = reconnectAt
                 /\ socks' # socks =>
                       /\ now - lastPongTime > pongTimeoutMs
                       /\ now - connectionStartTime > pongTimeoutMs
                       /\ closeCall' = 1005
                 /\ now - lastPongTime <= pongTimeoutMs =>
                       UNCHANGED <<socks, closeCall>>
        /\ OnOpen => lastPongTime' = now
        /\ (\E hasT \in BOOLEAN : RecvPong(hasT)) => lastPongTime' = now
        /\ lastPongTime' # lastPongTime =>
              (OnOpen \/ \E hasT \in BOOLEAN : RecvPong(hasT)) ]_vars

C15_Witness ==
    /\ closeCall = 1005
    /\ ~stopCalled
    /\ socks[webSocket] = "closing"
    /\ lastPongTime > 0
    /\ now - lastPongTime > pongTimeoutMs

\* C16: once the stop flag is set (by stop(), a preempted frame or a close
\* with code 1008) after connect() was called, connect() eventually returns,
\* provided the awaited transport delivers its close or error event and the
\* pending sleeps elapse (as far as the bound on time lets them).
C16_ConnectReturns ==
    (_stop /\ pc # "init") ~> (pc = "done" \/ now >= MaxTime)

C16_Witness ==
    /\ pc = "done"
    /\ stopCalled
    /\ ~preemptedSeen
    /\ ~closed1008
    /\ now = baseReconnectDelayMs
    /\ socks = <<"errored">>

\* C17: after stop() has run, connect() is not held by a reconnect sleep
\* whose timer has not expired: the sleep has observed the stop flag.
C17_SleepObservesStop ==
    (stopCalled /\ pc = "sleeping")
        => \A w \in BagToSet(sleeps) : w.awaited => w.at <= now

\* C18: once stop() has been invoked the sink is not invoked again.
C18_NoDeliveryAfterStop ==
    [][stopCalled => delivered' = delivered]_vars

\* A state as stop() leaves it.
StopHasRun ==
    /\ stopCalled
    /\ _stop
    /\ pingInterval = 0
    /\ pongWatchdog = 0
    /\ rotationTimeout = 0
    /\ webSocket # 0 =>
          (socks[webSocket] \notin {"open", "connecting"} /\ closeCall = 1005)

\* C19: stop() leaves the client in a state in which a further stop() changes
\* nothing: flag, timers and handles, transports, backoff fields, duplicate
\* set, frames sent and connect attempts are as the first call left them.
C19_StopIdempotent ==
    [][ /\ Stop => StopHasRun'
        /\ (StopHasRun /\ Stop) => UNCHANGED vars ]_vars

C19_Witness ==
    /\ StopHasRun
    /\ Len(socks) = 2
    /\ socks[2] = "closing"
    /\ sleeps # EmptyBag
    /\ timers = {}

\* C20 as stated: an exception the sink throws leaves the message handler.
C20_Original ==
    [][ (\E link \in Links : RecvSendArticleSinkThrows(link))
           => sinkError' = "uncaught" ]_vars

\* C20, amended: an exception the sink throws is caught inside handleMessage
\* and never leaves it; the handler returns normally, the transport, the stop
\* flag and the supervisor are as they were, and the identifier of the
\* article stays recorded in the duplicate set.
C20_SinkExceptionCaught ==
    [][ /\ sinkError' # "uncaught"
        /\ \A link \in Links :
              RecvSendArticleSinkThrows(link) =>
                 /\ sinkError' = "caught"
                 /\ UNCHANGED <<pc, _stop, socks, webSocket, closeCall, sleeps>>
                 /\ link # 0 => Has(recentArticleLinks', link) ]_vars

C20_Witness ==
    /\ sinkError = "caught"
    /\ Len(delivered) = 1
    /\ delivered[1].link = 1
    /\ suppressed.link = 1

\* C21: a frame that is not JSON (or whose action cannot be read) is dropped
\* with the state unchanged: transport, stop flag, reconnectAt, backoff delay,
\* lease, last-pong time and duplicate set stay as they were, the sink is not
\* invoked, and the session still accepts frames afterwards.
C21_MalformedFrameDropped ==
    [][ \A bad \in BOOLEAN :
           RecvOther(bad) =>
              /\ UNCHANGED <<socks, webSocket, pc, _stop, reconnectAt,
                             currentReconnectDelayMs, leaseId, lastPongTime,
                             recentArticleLinks, delivered, timers, sleeps>>
              /\ CanReceive' ]_vars

C21_Witness ==
    /\ frames = 2
    /\ Len(delivered) = 1
    /\ delivered[1].link = 1
    /\ suppressed.link = 0
    /\ socks = <<"open">>

\* C22: a close event with code 1013 or 4001 leaves reconnectAt at the
\* instant of the close plus 60 s.
C22_RateLimitCloseSetsFloor ==
    [][ \A code \in {1013, 4001} :
           OnClose(code) => reconnectAt' = now + RateLimitWaitMs ]_vars

\* A connect attempt is rejected with an error whose message contains "429".
Rejected429 ==
    \/ OnError(TRUE)
    \/ \E code \in CloseCodes : OnErrorClose(TRUE, code)

\* C23: a rejection with a 429 sets reconnectAt to now + 60 000 and, unless
\* the client is stopped, connect() awaits a wait that ends at reconnectAt and
\* does not advance the exponential delay when it ends; the attempt that
\* follows a wait does not begin before reconnectAt.
C23_Http429HoldsOff ==
    [][ /\ Rejected429 =>
              /\ reconnectAt' = now + Http429WaitMs
              /\ ~_stop' =>
                    /\ pc' = "sleeping"
                    /\ \E w \in BagToSet(sleeps') :
                          w.awaited /\ ~w.exp /\ w.at = reconnectAt'
                    /\ \A w \in BagToSet(sleeps') : w.awaited => ~w.exp
        /\ \A w \in BagToSet(sleeps) :
              (SleepDone(w) /\ ~w.exp) => UNCHANGED currentReconnectDelayMs
        /\ (pc = "sleeping" /\ AttemptBegins) =>
              ~(reconnectAt # 0 /\ now < reconnectAt) ]_vars

C23_Witness ==
    /\ Len(socks) = 2
    /\ pc = "awaitWs"
    /\ socks[2] = "connecting"
    /\ reconnectAt = Http429WaitMs
    /\ now = Http429WaitMs


\* C29: an error frame whose text includes "limit" sets reconnectAt to
\* now + 60 000 and closes the transport with 4001; otherwise one whose text
\* includes "blocked" sets it to now + 3 600 000 and closes with 4002; any
\* other leaves transport and reconnectAt alone; none changes the stop flag.
C29_ErrorFrameRouting ==
    [][ \A limit, blocked \in BOOLEAN :
           RecvError(limit, blocked) =>
              /\ _stop' = _stop
              /\ limit =>
                    /\ reconnectAt' = now + RateLimitWaitMs
                    /\ closeCall' = 4001
                    /\ socks' = WsClose(socks)
              /\ (~limit /\ blocked) =>
                    /\ reconnectAt' = now + BlockedWaitMs
                    /\ closeCall' = 4002
                    /\ socks' = WsClose(socks)
              /\ (~limit /\ ~blocked) =>
                    UNCHANGED <<reconnectAt, closeCall, socks>> ]_vars

C29_Witness ==
    /\ closeCall = 4002
    /\ reconnectAt = now + BlockedWaitMs
    /\ socks[webSocket] = "closing"
    /\ ~_stop
    /\ frames = 2

\* C30: an admin_kick frame sets reconnectAt to now + its retryAfter when it
\* carries one, whatever the number, and to now + 900 000 when it carries
\* none; it closes the transport with 4003 and leaves the stop flag alone.
C30_AdminKickRetryAfter ==
    [][ \A has \in BOOLEAN, val \in KickValues :
           RecvAdminKick(has, val) =>
              /\ reconnectAt' = now + (IF has THEN val ELSE DefaultKickMs)
              /\ closeCall' = 4003
              /\ _stop' = _stop ]_vars


\* C24: the raw client delivers every sendArticle frame it handles, repeated
\* links included, and its duplicate set is empty in every state.
C24_RawNoDeduplication ==
    [][ /\ \A link \in Links :
              RecvSendArticleRaw(link) =>
                 delivered' = Append(delivered, [link |-> link, sess |-> webSocket])
        /\ recentArticleLinks' = <<>> ]_vars

C24_Witness ==
    /\ Len(delivered) = MaxSinkFrames
    /\ \A k \in 1..Len(delivered) : delivered[k].link = 1
    /\ delivered[1].sess = 1
    /\ delivered[2].sess = 1
    /\ delivered[MaxSinkFrames].sess = 2
    /\ recentArticleLinks = <<>>


\* C26: the sink is invoked for an article in the step that handles its
\* frame, once, after every invocation made for a frame that arrived earlier:
\* within a session the articles reach the sink in the order of arrival.
C26_DeliveryInArrivalOrder ==
    [][ delivered' # delivered =>
           /\ frames' = frames + 1
           /\ Len(delivered') = Len(delivered) + 1
           /\ SubSeq(delivered', 1, Len(delivered)) = delivered
           /\ delivered'[Len(delivered')].sess = webSocket ]_vars

C26_Witness ==
    /\ frames = 4
    /\ Len(delivered) = 3
    /\ \A k \in 1..3 : delivered[k] = [link |-> k, sess |-> 1]
    /\ suppressed = [link |-> 1, sess |-> 1]


\* A step in which transport i delivers its close event.
Closes(i) == socks[i] # "closed" /\ socks'[i] = "closed"

\* A close event with this code, handled by a client with the hook.
HookedClose(code, throws) ==
    \/ OnCloseHook(code, throws)
    \/ \E is429 \in BOOLEAN : OnErrorCloseHook(is429, code, throws)
    \/ \E i \in 1..Len(socks) : OnLateCloseHook(i, code, throws)

RetryableStatuses == {429, 500, 502, 503, 504}

\* The limit of attempts of the call in progress.
AttemptLimit == IF retryCount = NoRetryCount THEN 3 ELSE retryCount

\* What a call of request() has done so far, at any point of it.
RetryDiscipline ==
    /\ requests <= AttemptLimit
    /\ \A k \in 1..Len(failures) :
          k < requests => failures[k] \in RetryableStatuses
    /\ \A k \in 1..Len(waits) : waits[k] = 500 * 2 ^ (k - 1)
    /\ apiPc \in {"requesting", "returned"} =>
          /\ requests = Len(failures) + 1
          /\ Len(waits) = Len(failures)
    /\ apiPc = "delaying" =>
          /\ requests = Len(failures)
          /\ Len(waits) = Len(failures)
    /\ apiPc = "thrown" =>
          IF failures = <<>>
          THEN AttemptLimit = 0 /\ requests = 0 /\ thrown.kind = "maxRetries"
          ELSE /\ requests = Len(failures)
               /\ Len(waits) = Len(failures) - 1
               /\ thrown = [kind |-> "http", status |-> failures[Len(failures)]]
               /\ \/ failures[Len(failures)] \notin RetryableStatuses
                  \/ requests = AttemptLimit

\* C27: request() issues at most retryCount HTTP requests (3 when none is
\* configured), issues another one only after a failure with status 429, 500,
\* 502, 503 or 504 and a delay of 500 ms x 2^(attempt-1), throws the error of
\* the failed request at once when its status is any other and when the
\* attempts are used up, and every call returns or throws.
C27_RequestRetries ==
    /\ []RetryDiscipline
    /\ (apiPc \in {"requesting", "delaying"}) ~> (apiPc \in {"returned", "thrown"})

C27_Witness ==
    /\ retryCount = NoRetryCount
    /\ apiPc = "thrown"
    /\ failures = <<503, 429, 500>>
    /\ waits = <<500, 1000>>
    /\ requests = 3
    /\ thrown = [kind |-> "http", status |-> 500]

\* The signature the contract accepts for a call: the digest under the
\* endpoint secret of timestamp and body, bare or after 'sha256='.
ExpectedPiece ==
    Hex(Hmac(webhookArgs.endpointSecret,
             MessageOf(webhookArgs.timestamp, webhookArgs.rawBody)))

SignatureMatches ==
    webhookArgs.signature \in {<<ExpectedPiece>>, <<SIGNATURE_PREFIX, ExpectedPiece>>}

\* C28: a call whose signature matches and whose timestamp, a non-empty
\* string, cannot be read as a time or lies more than 5 minutes from the wall
\* clock, is rejected with 'Webhook timestamp outside allowed tolerance'.
C28_TimestampOutsideToleranceRejected ==
    ( /\ webhookResult # "pending"
      /\ SignatureMatches
      /\ webhookArgs.timestamp.kind \in {"date", "invalid"}
      /\ \/ webhookArgs.timestamp.kind = "invalid"
         \/ Abs(webhookArgs.currentTime - webhookArgs.timestamp.time) > 5 * 60 * 1000 )
    => webhookResult = "Webhook timestamp outside allowed tolerance"

\* The reconnect waits a step starts and the ones it completes.
Started == {w \in BagToSet(sleeps') : CopiesIn(w, sleeps') > CopiesIn(w, sleeps)}
Completed == {w \in BagToSet(sleeps) : CopiesIn(w, sleeps') < CopiesIn(w, sleeps)}

\* C31: a reconnect wait started while reconnectAt (as handleReconnect reads
\* it) is set and in the future ends at reconnectAt and leaves the delay as it
\* is when it completes; any other wait ends currentReconnectDelayMs after its
\* start and, when it completes, the delay becomes min(delay * 2, maximum).
\* No wait completes before its end, and starting a wait leaves the delay
\* alone.
C31_BackoffBranches ==
    [][ /\ \A w \in Started :
              /\ currentReconnectDelayMs' = currentReconnectDelayMs
              /\ \E ra \in {reconnectAt, reconnectAt'} :
                    IF ra > 0 /\ now < ra
                    THEN w.at = ra /\ ~w.exp
                    ELSE w.at = now + currentReconnectDelayMs /\ w.exp
        /\ \A w \in Completed :
              /\ now >= w.at
              /\ currentReconnectDelayMs' =
                    IF w.exp
                    THEN (IF currentReconnectDelayMs * 2 < 2000
                          THEN currentReconnectDelayMs * 2 ELSE 2000)
                    ELSE currentReconnectDelayMs ]_vars

C31_Witness ==
    /\ currentReconnectDelayMs = 1000
    /\ \E w \in BagToSet(sleeps) : ~w.exp /\ w.at = reconnectAt /\ w.at > now


\* C32: an admit frame stores its lease and, whatever nonce it echoes,
\* leaves the transport, the stop flag, reconnectAt and the timers as they
\* are; and an article that is not a duplicate reaches the sink whether or
\* not an admit has been received.
C32_AdmissionAdvisory ==
    [][ /\ \A lease \in Leases, nonce \in 0..MaxAttempts :
              RecvAdmitNoted(lease, nonce) =>
                  /\ leaseId' = lease
                  /\ socks' = socks
                  /\ _stop' = _stop
                  /\ reconnectAt' = reconnectAt
                  /\ closeCall' = closeCall
                  /\ timers' = timers
                  /\ admitEcho'.echo = "warned" <=> (nonce # 0 /\ nonce # clientNonce)
        /\ \A link \in Links :
              (RecvSendArticle(link) /\ ~Has(recentArticleLinks, link)) =>
                  delivered' = Append(delivered, [link |-> link, sess |-> webSocket]) ]_vars

C32_Witness ==
    /\ admitEcho = [echo |-> "warned", frame |-> 2]
    /\ frames = 3
    /\ socks[webSocket] = "open"
    /\ ~_stop
    /\ delivered = <<[link |-> 1, sess |-> webSocket], [link |-> 0, sess |-> webSocket]>>

\* C33: when a session opens no lease is recorded, so that the lease is nil
\* until an admit frame arrives in that session.
C33_LeaseNilAtOpen ==
    [][ \A i \in 1..Len(socks) :
           (socks[i] = "connecting" /\ socks'[i] = "open") => leaseId' = 0 ]_vars


\* C34: the delivery of an article with a non-empty link appends the link to
\* the duplicate set; when the set held 10 links, the one inserted first is
\* removed, and no other; a frame dropped as a duplicate, like the delivery of
\* an article without a link, leaves the set and its order as they are.
C34_EvictionByInsertionOrder ==
    [][ /\ (delivered' # delivered /\ LastDelivered # 0) =>
              recentArticleLinks' =
                 IF Len(recentArticleLinks) = 10
                 THEN Tail(recentArticleLinks) \o <<LastDelivered>>
                 ELSE recentArticleLinks \o <<LastDelivered>>
        /\ (delivered' = delivered \/ LastDelivered = 0) =>
              recentArticleLinks' = recentArticleLinks ]_vars

C34_Witness ==
    /\ Len(recentArticleLinks) = 10
    /\ \A k \in 1..10 : recentArticleLinks[k] = k + 1
    /\ suppressed.link = 1
    /\ frames = 12


\* C35: an article that comes with createdAt as a string leaves the
\* transformer with createdAt as a Date.
C35_CreatedAtCoerced ==
    (transformed.done /\ rawArticle.createdAt = "string")
        => transformed.article.createdAt = "Date"

\* C36: at most one reconnect wait is pending, and connect() awaits it: the
\* loop constructs no WebSocket before the wait is over.
C36_OneGatingWait ==
    /\ BagCardinality(sleeps) <= 1
    /\ \A w \in BagToSet(sleeps) : w.awaited /\ pc = "sleeping"


\* The timers of session i that are active.
TimersOf(i) == {t \in timers : t.sess = i}

\* C37: the close event of an earlier transport leaves the timers of the
\* open session as they are, and a timer is started only when the handle it
\* is stored in names no active timer.
C37_SessionKeepsItsTimers ==
    [][ /\ \A i \in 1..Len(socks) :
              ( /\ socks[i] = "errored" /\ socks'[i] = "closed"
                /\ i # webSocket /\ socks[webSocket] = "open" )
              => TimersOf(webSocket) \subseteq timers'
        /\ \A i \in 1..Len(socks) :
              (socks[i] = "connecting" /\ socks'[i] = "open")
              => /\ TimersOf(pingInterval) = {}
                 /\ TimersOf(pongWatchdog) = {}
                 /\ TimersOf(rotationTimeout) = {} ]_vars


\* C38: once stop() has been invoked no ping, watchdog or rotation timer of
\* the client is active.
C38_NoTimerAfterStop == stopCalled => timers = {}


\* C39: while reconnectAt lies in the future, no step but the open of a
\* transport sets it to an earlier instant.
C39_FloorNeverShortened ==
    [][ reconnectAt > now =>
           \/ reconnectAt' >= reconnectAt
           \/ \E i \in 1..Len(socks) : socks[i] = "connecting" /\ socks'[i] = "open" ]_vars


\* The delay lies between the two options.
DelayInRange ==
    backoff.base <= backoff.current /\ backoff.current <= backoff.max

\* C40 as stated: whenever baseReconnectDelay <= maxReconnectDelay, the delay
\* lies between the two.
C40_Original == backoff.base <= backoff.max => DelayInRange

\* C40, amended: whenever 0 <= baseReconnectDelay <= maxReconnectDelay, the
\* delay lies between the two.
C40_DelayInRange ==
    (0 <= backoff.base /\ backoff.base <= backoff.max) => DelayInRange

C40_Witness ==
    /\ backoff.base = 500
    /\ backoff.max = 1500
    /\ backoff.current = 1500
    /\ backoff.doublings = 3

====
